---- MODULE Spec2Model ----
(***************************************************************************)
(* Retrieval-and-answer pipeline of the RAG assistant (api.py, src/*.py).  *)
(*                                                                         *)
(* Texts are sequences of units.  A unit is either one whitespace          *)
(* character (" ", "\n", "\t") or an opaque run of non-whitespace          *)
(* characters; len(), slicing, strip() and the regular expressions of the  *)
(* code act on units.  Window sizes and budgets are scaled to that unit.   *)
(***************************************************************************)
EXTENDS Integers, Sequences, FiniteSets, TLC

VARIABLES
    documents,      \* table documents: row i has doc_id = i (AUTOINCREMENT)
    chunks,         \* table chunks: row i has chunk_id = i
    client,         \* embeddings._client is set (OPENAI_API_KEY present)
    hashseed,       \* the process's string-hash salt (PYTHONHASHSEED)
    procs,          \* worker slots that serve /ask requests
    req,            \* per slot: position and locals of the request it serves
    asked,          \* number of /ask requests received so far
    contratos,      \* table contratos
    contrato_embeddings,  \* table contrato_embeddings
    next_contrato_id,     \* AUTOINCREMENT counter of contratos.id
    batch,          \* position of the /rag/cargar request being served
    call            \* a function under study: its arguments and its result

vars == <<documents, chunks, client, hashseed, procs, req, asked,
          contratos, contrato_embeddings, next_contrato_id, batch, call>>

storeVars == <<documents, chunks>>
contratoVars == <<contratos, contrato_embeddings, next_contrato_id, batch>>
\* what the request handlers and the loaders leave alone
envVars == <<client, hashseed, procs, call>>

-----------------------------------------------------------------------------
(* Bounds of the model *)

\* number of /ask requests a behaviour receives
MaxAsk == 2
\* default window of split_text, in units (the code's default is 1000 characters)
DEFAULT_MAX_CHARS == 4
\* default overlap of split_text, in units (the code's default is 150 characters)
DEFAULT_OVERLAP == 1

None == "None"

-----------------------------------------------------------------------------
(* Text helpers: str.strip, str.lower, slicing, substring test *)

IsSpace(c) == c \in {" ", "\n", "\t"}

RECURSIVE lstrip(_)
lstrip(s) == IF s = <<>> \/ ~IsSpace(Head(s)) THEN s ELSE lstrip(Tail(s))

RECURSIVE rstrip(_)
rstrip(s) ==
    IF s = <<>> \/ ~IsSpace(s[Len(s)]) THEN s ELSE rstrip(SubSeq(s, 1, Len(s) - 1))

strip(s) == rstrip(lstrip(s))

\* text[i:j] with 0 <= i, j (Python slice, clipped to the text)
Slice(s, i, j) ==
    LET hi == IF j > Len(s) THEN Len(s) ELSE j
    IN  IF i >= hi THEN <<>> ELSE SubSeq(s, i + 1, hi)

LowerUnit(c) ==
    CASE c = "Requisitos" -> "requisitos"
      [] c = "PLIEGO" -> "pliego"
      [] OTHER -> c

lower(s) == [i \in 1..Len(s) |-> LowerUnit(s[i])]

\* kw in q
Contains(q, kw) ==
    \E i \in 0..(Len(q) - Len(kw)) : SubSeq(q, i + 1, i + Len(kw)) = kw

\* the elements of s at the indices in keep, in order
Filter(s, keep) ==
    LET idx == SelectSeq([i \in 1..Len(s) |-> i], LAMBDA i : i \in keep)
    IN  [n \in 1..Len(idx) |-> s[idx[n]]]

-----------------------------------------------------------------------------
(* src/chunking.py *)

\* re.sub(r"\s+\n", "\n", text): a whitespace unit followed, through
\* whitespace only, by a newline is part of a match and is dropped; the last
\* newline of the match is what the replacement leaves.
SubSpaceNewline(text) ==
    LET Doomed(i) ==
            /\ IsSpace(text[i])
            /\ \E j \in (i + 1)..Len(text) :
                   /\ text[j] = "\n"
                   /\ \A k \in i..(j - 1) : IsSpace(text[k])
    IN  Filter(text, {i \in 1..Len(text) : ~Doomed(i)})

\* re.sub(r"\n{3,}", "\n\n", text): of a maximal run of three or more newlines
\* the first two are left.
SubNewlines(text) ==
    LET Extra(i) ==
            /\ i >= 3
            /\ text[i] = "\n" /\ text[i - 1] = "\n" /\ text[i - 2] = "\n"
    IN  Filter(text, {i \in 1..Len(text) : ~Extra(i)})

normalize(text) == SubNewlines(SubSpaceNewline(text))

\* the loop with i = j: consecutive windows share nothing
RECURSIVE split_loop_no_overlap(_, _, _, _, _)
split_loop_no_overlap(text, i, max_chars, overlap, parts) ==
    LET j == IF Len(text) < i + max_chars THEN Len(text) ELSE i + max_chars
        chunk == strip(Slice(text, i, j))
        parts2 == IF chunk # <<>> THEN Append(parts, chunk) ELSE parts
    IN  IF j >= Len(text) THEN parts2
        ELSE split_loop_no_overlap(text, j, max_chars, overlap, parts2)

\* the loop with chunk = text[i:j], not stripped
RECURSIVE split_loop_nostrip(_, _, _, _, _)
split_loop_nostrip(text, i, max_chars, overlap, parts) ==
    LET j == IF Len(text) < i + max_chars THEN Len(text) ELSE i + max_chars
        chunk == Slice(text, i, j)
        parts2 == IF chunk # <<>> THEN Append(parts, chunk) ELSE parts
        i2 == IF j - overlap < 0 THEN 0 ELSE j - overlap
    IN  IF j >= Len(text) THEN parts2
        ELSE split_loop_nostrip(text, i2, max_chars, overlap, parts2)

RECURSIVE split_loop(_, _, _, _, _)
split_loop(text, i, max_chars, overlap, parts) ==
    LET j == IF Len(text) < i + max_chars THEN Len(text) ELSE i + max_chars
        chunk == strip(Slice(text, i, j))
        parts2 == IF chunk # <<>> THEN Append(parts, chunk) ELSE parts
        i2 == IF j - overlap < 0 THEN 0 ELSE j - overlap
    IN  IF j >= Len(text) THEN parts2
        ELSE split_loop(text, i2, max_chars, overlap, parts2)

split_text(text, max_chars, overlap) ==
    IF text = <<>> THEN <<>>
    ELSE split_loop(normalize(text), 0, max_chars, overlap, <<>>)

-----------------------------------------------------------------------------
(* Generic list helpers: list.sort(reverse=True, key=...), str.join, str.split *)

\* an insertion that puts the new entry before the entries of equal score
RECURSIVE InsertDescBefore(_, _)
InsertDescBefore(sorted, x) ==
    IF sorted = <<>> THEN <<x>>
    ELSE IF Head(sorted).score > x.score
         THEN <<Head(sorted)>> \o InsertDescBefore(Tail(sorted), x)
         ELSE <<x>> \o sorted

\* insert x after every element whose score is >= x.score: with the elements
\* fed in list order this is Python's stable sort(reverse=True, key=score)
RECURSIVE InsertDesc(_, _)
InsertDesc(sorted, x) ==
    IF sorted = <<>> THEN <<x>>
    ELSE IF Head(sorted).score >= x.score
         THEN <<Head(sorted)>> \o InsertDesc(Tail(sorted), x)
         ELSE <<x>> \o sorted

RECURSIVE SortDescFrom(_, _)
SortDescFrom(s, acc) ==
    IF s = <<>> THEN acc
    ELSE SortDescFrom(Tail(s), InsertDesc(acc, Head(s)))

SortDesc(s) == SortDescFrom(s, <<>>)

\* sep.join(parts)
RECURSIVE Join(_, _)
Join(parts, sep) ==
    IF parts = <<>> THEN <<>>
    ELSE IF Len(parts) = 1 THEN parts[1]
    ELSE parts[1] \o <<sep>> \o Join(Tail(parts), sep)

\* text.split("\n")
RECURSIVE SplitLinesFrom(_, _, _)
SplitLinesFrom(text, cur, out) ==
    IF text = <<>> THEN Append(out, cur)
    ELSE IF Head(text) = "\n"
         THEN SplitLinesFrom(Tail(text), <<>>, Append(out, cur))
         ELSE SplitLinesFrom(Tail(text), Append(cur, Head(text)), out)

SplitLines(text) == SplitLinesFrom(text, <<>>, <<>>)

\* " ".join(p.split()): whitespace runs collapsed to one blank, ends trimmed
SquashSpaces(p) ==
    LET t == strip(p)
        Dup(i) == i >= 2 /\ IsSpace(t[i]) /\ IsSpace(t[i - 1])
        kept == Filter(t, {i \in 1..Len(t) : ~Dup(i)})
    IN  [i \in 1..Len(kept) |-> IF IsSpace(kept[i]) THEN " " ELSE kept[i]]

\* the elements of a sequence, as a set
Range(s) == {s[i] : i \in 1..Len(s)}

-----------------------------------------------------------------------------
(* JSON text: json.dumps wraps a value into its encoding, json.loads unwraps *)

json_dumps(x) == [json |-> x]
IsStr(x) == DOMAIN x = {"json"}
json_loads(s) == s.json

-----------------------------------------------------------------------------
(* api.py: the catalog of trusted sources *)

URL_MANUAL == "cce-eicp-ma-04._manual_requisitos_habilitantes_v3_29-09-2023.pdf"
URL_GUIA == "cce-sec-gi-18guiasecopii_eepclicitacionpublica20-04-2022.pdf"
URL_PLIEGO == "20151115_pliego_de_condiciones_para_contrato_de_obra_publica_v2_0.pdf"
URL_GESTION == "Gu%C3%ADa%20-%20Gesti%C3%B3n%20Contractual.pdf"

TRUSTED_PDFS == <<
    [titulo |-> "Manual para determinar y verificar los requisitos habilitantes",
     url |-> URL_MANUAL, entidad |-> "Colombia Compra Eficiente",
     keywords |-> << <<"requisitos">>, <<"habilitantes">>, <<"capacidad">>,
                     <<"juridica">>, <<"jurídica">>, <<"financiera">>,
                     <<"organizacional">>, <<"experiencia">>,
                     <<"inhabilidades">>, <<"contrato">> >>],
    [titulo |-> "Guía de criterios de evaluación",
     url |-> URL_GUIA, entidad |-> "Colombia Compra Eficiente",
     keywords |-> << <<"criterios">>, <<"evaluacion">>, <<"evaluación">>,
                     <<"ponderacion">>, <<"ponderación">>, <<"metodologia">>,
                     <<"metodología">>, <<"precio">>, <<"experiencia">> >>],
    [titulo |-> "Pliego de Condiciones Tipo - Obra Pública v2.0",
     url |-> URL_PLIEGO, entidad |-> "Colombia Compra Eficiente",
     keywords |-> << <<"pliego">>, <<"obra">>, <<"requisitos">>, <<"plazo">>,
                     <<"garantias">>, <<"garantías">>, <<"ejecucion">>,
                     <<"ejecución">>, <<"condiciones">>, <<"pagos">> >>],
    [titulo |-> "Guía - Gestión Contractual (SECOP II)",
     url |-> URL_GESTION, entidad |-> "Colombia Compra Eficiente",
     keywords |-> << <<"gestion">>, <<"gestión">>, <<"contractual">>,
                     <<"pagos">>, <<"plazo", "s">>, <<"validación">>,
                     <<"facturas">>, <<"parafiscales">>, <<"cronograma">>,
                     <<"secop">>, <<"secop", " ", "ii">> >>]
>>

CatalogUrls == {TRUSTED_PDFS[i].url : i \in 1..Len(TRUSTED_PDFS)}

\* sum(1 for kw in item["keywords"] if kw.lower() in q)
KeywordScore(item, q) ==
    Cardinality({n \in 1..Len(item.keywords) : Contains(q, lower(item.keywords[n]))})

_pick_web_candidates(question, need) ==
    LET q == lower(question)
        scored == [i \in 1..Len(TRUSTED_PDFS) |->
                      [score |-> KeywordScore(TRUSTED_PDFS[i], q), item |-> i]]
        sorted == SortDesc(scored)
        out == SelectSeq(sorted, LAMBDA x : x.score > 0)
    IN  [n \in 1..(IF Len(out) < need THEN Len(out) ELSE need) |-> out[n].item]

\* meta.get("url") of a decoded metadata dict
MetaUrl(meta) == IF "url" \in DOMAIN meta THEN meta.url ELSE None

\* _existing_urls_set over the rows list_documents returned
UrlsOf(docs) ==
    LET Meta(d) == IF IsStr(d.metadata) THEN json_loads(d.metadata) ELSE d.metadata
    IN  {MetaUrl(Meta(docs[i])) : i \in 1..Len(docs)} \ {None}

-----------------------------------------------------------------------------
(* src/embeddings.py.  A vector is its dimensionality and a direction; the  *)
(* directions are integer vectors of norm VEC_NORM, so the cosine of two of *)
(* them is their dot product over VEC_NORM^2.                               *)

CHEAP_DIM == 512
MODEL_DIM == 1536
VEC_NORM == 5
Dirs == << <<5, 0>>, <<4, 3>>, <<3, 4>>, <<0, 5>> >>

Alphabet == <<" ", "\n", "\t", "test", "requisitos", "Requisitos", "pliego",
              "PLIEGO", "habilitantes", "proveedores", "Requisitos:",
              "capacidad", "experiencia", "y", "pagos">>

UnitCode(u) ==
    IF u \in Range(Alphabet) THEN CHOOSE i \in 1..Len(Alphabet) : Alphabet[i] = u
    ELSE 0

\* hash(s) of the text, before the process salt is mixed in
RECURSIVE StrHash(_)
StrHash(s) == IF s = <<>> THEN 0 ELSE UnitCode(Head(s)) + 3 * StrHash(Tail(s))

\* _cheap_embed: a unit vector drawn from a generator seeded with hash(s)
CheapEmbedWith(s, salt) ==
    [dim |-> CHEAP_DIM, v |-> Dirs[((StrHash(s) + salt) % Len(Dirs)) + 1]]

_cheap_embed(s) == CheapEmbedWith(s, hashseed)

\* the embedding service's vector for a text
ModelEmbed(s) ==
    [dim |-> MODEL_DIM, v |-> Dirs[(StrHash(s) % Len(Dirs)) + 1]]

\* embed_texts, when the service (if any) answers
embed_texts(texts) ==
    IF texts = <<>> THEN <<>>
    ELSE IF client THEN [i \in 1..Len(texts) |-> ModelEmbed(texts[i])]
    ELSE [i \in 1..Len(texts) |-> _cheap_embed(texts[i])]

\* embed_text, when the service (if any) answers
embed_text(text) ==
    IF text = <<>> THEN _cheap_embed(<<>>)
    ELSE IF client THEN ModelEmbed(text)
    ELSE _cheap_embed(text)

-----------------------------------------------------------------------------
(* src/db_sqlite.py: documents and chunks *)

\* the row insert_document adds; its doc_id is the row's position
DocumentRow(titulo, entidad, metadata) ==
    [titulo |-> titulo, entidad |-> entidad, metadata |-> json_dumps(metadata)]

\* list_documents: ORDER BY doc_id DESC, metadata decoded once
list_documents ==
    [i \in 1..Len(documents) |->
        LET id == Len(documents) - i + 1
        IN  [doc_id |-> id, titulo |-> documents[id].titulo,
             metadata |-> json_loads(documents[id].metadata)]]

\* rows numbered by enumerate(..., 1)
insert_chunks_from_one(doc_id, texts, embs) ==
    LET n == IF Len(texts) < Len(embs) THEN Len(texts) ELSE Len(embs)
    IN  [i \in 1..n |-> [doc_id |-> doc_id, ord |-> i, text |-> texts[i],
                         emb_json |-> json_dumps(embs[i])]]

\* the rows insert_chunks adds: enumerate(zip(chunks, embs))
insert_chunks(doc_id, texts, embs) ==
    LET n == IF Len(texts) < Len(embs) THEN Len(texts) ELSE Len(embs)
    IN  [i \in 1..n |-> [doc_id |-> doc_id, ord |-> i - 1, text |-> texts[i],
                         emb_json |-> json_dumps(embs[i])]]

\* fetch_all_vectors: chunks JOIN documents ORDER BY doc_id, ord
fetch_all_vectors ==
    LET rows == [i \in 1..Len(chunks) |->
                    [chunk_id |-> i, doc_id |-> chunks[i].doc_id,
                     ord |-> chunks[i].ord, text |-> chunks[i].text,
                     emb |-> json_loads(chunks[i].emb_json),
                     titulo |-> documents[chunks[i].doc_id].titulo]]
        Before(a, b) ==
            \/ a.doc_id < b.doc_id
            \/ a.doc_id = b.doc_id /\ a.ord < b.ord
            \/ a.doc_id = b.doc_id /\ a.ord = b.ord /\ a.chunk_id < b.chunk_id
    IN  SortSeq(rows, Before)

\* the chunk rows of a document, in insertion order
ChunksOf(doc_id) == SelectSeq(chunks, LAMBDA c : c.doc_id = doc_id)

-----------------------------------------------------------------------------
(* api.py: context builder and heuristic answer *)

\* default budget of build_context_for_answer, in units (the code's is 4000)
CONTEXT_MAX_CHARS == 12
\* budget heuristic_answer passes, in units (the code's is 1200): room for
\* more lines than heuristic_answer keeps
HEURISTIC_MAX_CHARS == 10
\* length of text_preview, in units (the code's is 600)
PREVIEW_CHARS == 3
TOP_DOC_CHUNKS == 10
MAX_SENTENCES == 5

MSG_PROMPT == <<"Por favor, escribe una pregunta.">>
MSG_NO_DOCS == <<"No hay documentos en la base de datos para responder. La búsqueda automática no encontró fuentes relevantes.">>
MSG_NO_RESULTS == <<"No se encontraron resultados relevantes en los documentos.">>
MSG_INSUFFICIENT == <<"No encontré texto suficiente en la fuente para responder. Por favor, verifica el documento original.">>
MSG_NO_SOURCES == <<"Respuesta generada sin fuentes.">>
ErrorMsg(ename) == <<"Ocurrió un error inesperado:", " ", ename>>

\* the lines of all chunk texts, in order
RECURSIVE AllLines(_)
AllLines(sims) ==
    IF sims = <<>> THEN <<>>
    ELSE SplitLines(Head(sims).text) \o AllLines(Tail(sims))

\* sum(len(x) + 1 for x in paras)
RECURSIVE SumLen1(_)
SumLen1(paras) ==
    IF paras = <<>> THEN 0 ELSE Len(Head(paras)) + 1 + SumLen1(Tail(paras))

\* the loop with keys compared without regard to case
RECURSIVE context_loop_lower(_, _, _, _)
context_loop_lower(lines, paras, seen, max_chars) ==
    IF lines = <<>> THEN paras
    ELSE LET p == strip(Head(lines))
             key == lower(SquashSpaces(p))
         IN  IF p = <<>> \/ key \in seen
             THEN context_loop_lower(Tail(lines), paras, seen, max_chars)
             ELSE IF SumLen1(Append(paras, p)) > max_chars
                  THEN Append(paras, p)
                  ELSE context_loop_lower(Tail(lines), Append(paras, p),
                                          seen \cup {key}, max_chars)

\* the loop without the test of the budget
RECURSIVE context_loop_unbounded(_, _, _, _)
context_loop_unbounded(lines, paras, seen, max_chars) ==
    IF lines = <<>> THEN paras
    ELSE LET p == strip(Head(lines))
             key == SquashSpaces(p)
         IN  IF p = <<>> \/ key \in seen
             THEN context_loop_unbounded(Tail(lines), paras, seen, max_chars)
             ELSE context_loop_unbounded(Tail(lines), Append(paras, p),
                                         seen \cup {key}, max_chars)

RECURSIVE context_loop(_, _, _, _)
context_loop(lines, paras, seen, max_chars) ==
    IF lines = <<>> THEN paras
    ELSE LET p == strip(Head(lines))
             key == SquashSpaces(p)
         IN  IF p = <<>> \/ key \in seen
             THEN context_loop(Tail(lines), paras, seen, max_chars)
             ELSE IF SumLen1(Append(paras, p)) > max_chars
                  THEN Append(paras, p)
                  ELSE context_loop(Tail(lines), Append(paras, p),
                                    seen \cup {key}, max_chars)

build_context_for_answer(sims, max_chars) ==
    Join(context_loop(AllLines(sims), <<>>, {}, max_chars), "\n")

\* the loop without the limit on the lines kept
RECURSIVE heuristic_loop_nocap(_, _, _)
heuristic_loop_nocap(parts, sent, seen) ==
    IF parts = <<>> THEN sent
    ELSE LET p == strip(Head(parts))
             key == lower(SquashSpaces(p))
         IN  IF p = <<>> \/ key \in seen
             THEN heuristic_loop_nocap(Tail(parts), sent, seen)
             ELSE heuristic_loop_nocap(Tail(parts), Append(sent, p),
                                       seen \cup {key})

RECURSIVE heuristic_loop(_, _, _)
heuristic_loop(parts, sent, seen) ==
    IF parts = <<>> THEN sent
    ELSE LET p == strip(Head(parts))
             key == lower(SquashSpaces(p))
         IN  IF p = <<>> \/ key \in seen
             THEN heuristic_loop(Tail(parts), sent, seen)
             ELSE IF Len(sent) + 1 >= MAX_SENTENCES
                  THEN Append(sent, p)
                  ELSE heuristic_loop(Tail(parts), Append(sent, p), seen \cup {key})

heuristic_answer(question, sims) ==
    LET ctx == build_context_for_answer(sims, HEURISTIC_MAX_CHARS)
        sent == heuristic_loop(SplitLines(ctx), <<>>, {})
    IN  IF sent = <<>> THEN MSG_INSUFFICIENT ELSE Join(sent, " ")

-----------------------------------------------------------------------------
(* api.py: similarity ranking of ask_ep *)

SameShape(a, b) == a.dim = b.dim

\* np.dot(qvec, emb) / (|qvec| * |emb|), in units of 1 / VEC_NORM^2
Similarity(qvec, emb) == qvec.v[1] * emb.v[1] + qvec.v[2] * emb.v[2]

\* sims left in storage order
RankItemsUnsorted(qvec, items) ==
    [i \in 1..Len(items) |->
        [score |-> Similarity(qvec, items[i].emb),
         doc_id |-> items[i].doc_id, ord |-> items[i].ord,
         text |-> items[i].text, titulo |-> items[i].titulo]]

\* sims after sims.sort(reverse=True, key=lambda x: x[0])
RankItems(qvec, items) ==
    SortDesc([i \in 1..Len(items) |->
                 [score |-> Similarity(qvec, items[i].emb),
                  doc_id |-> items[i].doc_id, ord |-> items[i].ord,
                  text |-> items[i].text, titulo |-> items[i].titulo]])

\* the whole ranking, of every document
TopDocChunksAll(sims) == sims

\* [s for s in sims if s[1] == best_doc_id][:10]
TopDocChunks(sims) ==
    LET same == SelectSeq(sims, LAMBDA x : x.doc_id = sims[1].doc_id)
    IN  SubSeq(same, 1, IF Len(same) < TOP_DOC_CHUNKS THEN Len(same) ELSE TOP_DOC_CHUNKS)

KEYWORDS_DATOS == << <<"cuánto">>, <<"cuánto", "s">>, <<"cuantos">>,
                     <<"estadística">>, <<"estadistica">>,
                     <<"contrato", "s", " ", "de">>, <<"gasto">>, <<"gastó">>,
                     <<"empresas", " ", "que">>, <<"proveedores">> >>

\* any(kw in q_lower for kw in keywords_datos)
necesita_datos_secop(q) ==
    \E n \in 1..Len(KEYWORDS_DATOS) : Contains(lower(q), KEYWORDS_DATOS[n])

\* the response of the normal path
NormalResponse(top_doc_chunks, answer, secop_count) ==
    [ok |-> TRUE,
     matches |-> << [score |-> top_doc_chunks[1].score,
                     doc_id |-> top_doc_chunks[1].doc_id,
                     titulo |-> top_doc_chunks[1].titulo,
                     chunk_ord |-> top_doc_chunks[1].ord,
                     text_preview |-> Slice(top_doc_chunks[1].text, 0, PREVIEW_CHARS)] >>,
     answer |-> answer,
     secop |-> secop_count]

PlainResponse(answer) ==
    [ok |-> TRUE, matches |-> <<>>, answer |-> answer, secop |-> 0]

\* an error response whose match does not carry the note's doc_id
ErrorResponseNoDoc(doc_id, msg) ==
    [ok |-> TRUE,
     matches |-> << [score |-> 0, doc_id |-> 0, titulo |-> "Nota de Error",
                     chunk_ord |-> 0, text_preview |-> msg] >>,
     answer |-> msg,
     secop |-> 0]

ErrorResponse(doc_id, msg) ==
    [ok |-> TRUE,
     matches |-> << [score |-> 0, doc_id |-> doc_id, titulo |-> "Nota de Error",
                     chunk_ord |-> 0, text_preview |-> msg] >>,
     answer |-> msg,
     secop |-> 0]

-----------------------------------------------------------------------------
(* The environment: questions asked, texts the trusted PDFs hold, answers   *)
(* of the language model, results of the open-data API                      *)

Slots == {1, 2}
MIN_DOCS == 1

Queries == { <<>>, <<" ">>, <<"test">>,
             <<"Requisitos", " ", "habilitantes">>, <<"PLIEGO">>,
             <<"proveedores">> }

\* "".join(page.extract_text() + "\n" for each page) of a fetched PDF
PdfTexts == { <<"\n">>,
              <<"Requisitos", "\n", "\n", "\n", "experiencia", " ", "y", " ",
                "pagos", "\n">> }

\* answer_with_openai: None, or the stripped completion (possibly empty)
LlmAnswers == { <<>>, <<"Requisitos:", " ", "capacidad">> }

\* len(contratos) of the open-data search
SecopCounts == {0, 2}

NoResp == [ok |-> FALSE, matches |-> <<>>, answer |-> <<>>, secop |-> 0]

Idle == [pc |-> "idle", query |-> <<>>, q |-> <<>>, existing_urls |-> {},
         candidates |-> <<>>, k |-> 1, count |-> 0, doc_id |-> 0, txt |-> <<>>,
         items |-> <<>>, top |-> <<>>, err |-> None, resp |-> NoResp,
         \* history of the request, read by the properties only
         listed |-> TRUE,        \* list_documents answered
         fetch_ok |-> TRUE,      \* every fetch answered 200 with a PDF
         smooth |-> TRUE,        \* no step after a fetch failed or found no text
         urls0 |-> {},           \* URLs stored when the request arrived
         ncat |-> 0,             \* catalog documents the request created
         nochunks |-> FALSE,     \* no chunk stored when auto-ingestion returned
         emb_ingest |-> FALSE,   \* embed_texts called by auto-ingestion
         emb_query |-> FALSE,    \* embed_text called on the query
         emb_note |-> FALSE,     \* embed_texts called by create_synthetic_doc
         llm |-> FALSE,          \* answer_with_openai called
         heuristic |-> FALSE,    \* heuristic_answer called
         note |-> FALSE]         \* create_synthetic_doc returned

\* a store left by an earlier run of the process: the whole catalog ingested
\* offline, one chunk per document
SeededDocuments ==
    [i \in 1..Len(TRUSTED_PDFS) |->
        DocumentRow(TRUSTED_PDFS[i].titulo, TRUSTED_PDFS[i].entidad,
                    json_dumps([tipo |-> "pdf", url |-> TRUSTED_PDFS[i].url]))]

SeededChunks ==
    [i \in 1..Len(TRUSTED_PDFS) |->
        [doc_id |-> i, ord |-> 0, text |-> <<"Requisitos:", " ", "capacidad">>,
         emb_json |-> json_dumps(CheapEmbedWith(<<"Requisitos:", " ", "capacidad">>, i))]]

\* no /rag/cargar request is being served
NoBatch == [active |-> FALSE, i |-> 1, cargados |-> 0]

InitCommon ==
    \* the salt is read by the offline embedder only
    /\ client \in BOOLEAN
    /\ hashseed \in (IF client THEN {0} ELSE {0, 1})
    /\ \/ documents = <<>> /\ chunks = <<>>
       \/ documents = SeededDocuments /\ chunks = SeededChunks
    /\ req = [r \in Slots |-> Idle]
    /\ asked = 0
    /\ contratos = <<>>
    /\ contrato_embeddings = <<>>
    /\ next_contrato_id = 1
    /\ batch = NoBatch

\* no function is called on its own
NoCall == [pc |-> "none"]

Init == InitCommon /\ procs = {1} /\ call = NoCall

\* two workers, started on an empty store with the offline embedder
InitConcurrent ==
    /\ InitCommon /\ procs = {1, 2} /\ call = NoCall
    /\ documents = <<>> /\ ~client /\ hashseed = 0

Update(r, rec) == req' = [req EXCEPT ![r] = rec]

-----------------------------------------------------------------------------
(* ask_ep, lines 1691-1696, and _existing_urls_set, _pick_web_candidates *)

\* the test of line 1693 on the query as received, not stripped
BlankQueryNoStrip(query) == query = <<>>

BlankQuery(query) == strip(query) = <<>>

\* where the request goes once the query is stripped
AskBlank(r, query) ==
    Update(r, [Idle EXCEPT !.pc = "done", !.query = query,
                           !.resp = PlainResponse(MSG_PROMPT)])

AskIngest(r, query, urls, listed) ==
    Update(r, [Idle EXCEPT !.pc = "fetch", !.query = query, !.q = strip(query),
                           !.existing_urls = urls,
                           !.candidates = _pick_web_candidates(strip(query), MIN_DOCS),
                           !.listed = listed,
                           !.urls0 = UrlsOf(list_documents)])

Ask(r) ==
    /\ r \in procs
    /\ req[r].pc = "idle"
    /\ asked < MaxAsk
    /\ asked' = asked + 1
    /\ \E query \in Queries :
          \/ /\ BlankQuery(query)
             /\ AskBlank(r, query)
          \/ /\ ~BlankQuery(query)
             /\ AskIngest(r, query, UrlsOf(list_documents), TRUE)
          \/ \* list_documents raises: the set stays empty
             /\ ~BlankQuery(query)
             /\ AskIngest(r, query, {}, FALSE)
    /\ UNCHANGED <<storeVars, envVars, contratoVars>>

-----------------------------------------------------------------------------
(* _auto_ingest_from_web, lines 148-169 *)

CurrentUrl(r) == TRUSTED_PDFS[req[r].candidates[req[r].k]].url

\* a loop body without the try/except of lines 152-168: a failure after the
\* fetch reaches the except branch of ask_ep
NextCandidateRaising(r, fetched, ok) ==
    IF ok
    THEN Update(r, [req[r] EXCEPT !.k = @ + 1, !.pc = "fetch",
                                  !.fetch_ok = @ /\ fetched])
    ELSE Update(r, [req[r] EXCEPT !.pc = "err_doc", !.err = "Exception",
                                  !.smooth = FALSE])

\* continue: next candidate (fetched: the fetch answered 200 with a PDF;
\* ok: nothing after the fetch failed)
NextCandidate(r, fetched, ok) ==
    Update(r, [req[r] EXCEPT !.k = @ + 1, !.pc = "fetch",
                             !.fetch_ok = @ /\ fetched, !.smooth = @ /\ ok])

Fetch(r) ==
    /\ r \in procs
    /\ req[r].pc = "fetch"
    /\ \/ \* the loop is over: return count
          /\ req[r].k > Len(req[r].candidates)
          /\ Update(r, [req[r] EXCEPT !.pc = "vectors",
                                      !.nochunks = (chunks = <<>>)])
       \/ /\ req[r].k <= Len(req[r].candidates)
          /\ CurrentUrl(r) \in req[r].existing_urls
          /\ NextCandidate(r, TRUE, TRUE)
       \/ \* requests.get raises, or answers without 200 / without a PDF
          /\ req[r].k <= Len(req[r].candidates)
          /\ CurrentUrl(r) \notin req[r].existing_urls
          /\ NextCandidate(r, FALSE, TRUE)
       \/ \* 200 with a PDF content type
          /\ req[r].k <= Len(req[r].candidates)
          /\ CurrentUrl(r) \notin req[r].existing_urls
          /\ \E txt \in PdfTexts :
                Update(r, [req[r] EXCEPT !.pc = "insdoc", !.txt = txt])
    /\ UNCHANGED <<storeVars, envVars, asked, contratoVars>>

\* an insert_document call whose metadata does not record the url
InsertDocumentNoUrl(r) ==
    /\ r \in procs
    /\ req[r].pc = "insdoc"
    /\ \/ LET cand == TRUSTED_PDFS[req[r].candidates[req[r].k]]
          IN  /\ documents' = Append(documents,
                     DocumentRow(cand.titulo, cand.entidad,
                                 json_dumps([tipo |-> "pdf"])))
              /\ Update(r, [req[r] EXCEPT !.pc = "inschunks",
                                          !.doc_id = Len(documents) + 1,
                                          !.ncat = @ + 1])
       \/ /\ NextCandidate(r, TRUE, FALSE)
          /\ UNCHANGED documents
    /\ UNCHANGED <<chunks, envVars, asked, contratoVars>>

InsertDocument(r) ==
    /\ r \in procs
    /\ req[r].pc = "insdoc"
    /\ \/ LET cand == TRUSTED_PDFS[req[r].candidates[req[r].k]]
          IN  /\ documents' = Append(documents,
                     DocumentRow(cand.titulo, cand.entidad,
                                 json_dumps([tipo |-> "pdf", url |-> cand.url])))
              /\ Update(r, [req[r] EXCEPT !.pc = "inschunks",
                                          !.doc_id = Len(documents) + 1,
                                          !.ncat = @ + 1])
       \/ \* insert_document raises
          /\ NextCandidate(r, TRUE, FALSE)
          /\ UNCHANGED documents
    /\ UNCHANGED <<chunks, envVars, asked, contratoVars>>

\* after a successful insert_chunks: count += 1, break when count >= min_docs
Ingested(r) ==
    IF req[r].count + 1 >= MIN_DOCS
    THEN [req[r] EXCEPT !.pc = "vectors", !.count = @ + 1,
                        !.existing_urls = @ \cup {CurrentUrl(r)},
                        !.emb_ingest = TRUE, !.nochunks = FALSE]
    ELSE [req[r] EXCEPT !.pc = "fetch", !.count = @ + 1, !.k = @ + 1,
                        !.existing_urls = @ \cup {CurrentUrl(r)},
                        !.emb_ingest = TRUE]

\* continue, after embed_texts was called and it or insert_chunks raised
EmbedFailed(r) ==
    Update(r, [req[r] EXCEPT !.k = @ + 1, !.pc = "fetch", !.smooth = FALSE,
                             !.emb_ingest = TRUE])

InsertChunks(r) ==
    /\ r \in procs
    /\ req[r].pc = "inschunks"
    /\ LET parts == split_text(req[r].txt, DEFAULT_MAX_CHARS, DEFAULT_OVERLAP)
       IN  \/ \* write_bytes or PdfReader raises
              /\ NextCandidate(r, TRUE, FALSE)
              /\ UNCHANGED chunks
           \/ \* if not chunks: continue
              /\ parts = <<>>
              /\ NextCandidate(r, TRUE, FALSE)
              /\ UNCHANGED chunks
           \/ \* embed_texts raises: the service is down
              /\ parts # <<>>
              /\ client
              /\ EmbedFailed(r)
              /\ UNCHANGED chunks
           \/ \* insert_chunks raises
              /\ parts # <<>>
              /\ EmbedFailed(r)
              /\ UNCHANGED chunks
           \/ /\ parts # <<>>
              /\ chunks' = chunks \o insert_chunks(req[r].doc_id, parts,
                                                   embed_texts(parts))
              /\ Update(r, Ingested(r))
    /\ UNCHANGED <<documents, envVars, asked, contratoVars>>

-----------------------------------------------------------------------------
(* ask_ep, lines 1698-1784: ranking and answer *)

\* the except branch of ask_ep is entered with an exception of type ename
Raise(r, ename, embedded) ==
    Update(r, [req[r] EXCEPT !.pc = "err_doc", !.err = ename,
                             !.emb_query = embedded])

\* a handler without the "if not items" return of lines 1699-1701: the
\* empty list falls through to the "if not sims" return of lines 1712-1713
FetchVectorsNoShortCircuit(r) ==
    /\ r \in procs
    /\ req[r].pc = "vectors"
    /\ \/ Raise(r, "OperationalError", FALSE)
       \/ /\ fetch_all_vectors = <<>>
          /\ Update(r, [req[r] EXCEPT !.pc = "done", !.emb_query = TRUE,
                                      !.resp = PlainResponse(MSG_NO_RESULTS)])
       \/ /\ fetch_all_vectors # <<>>
          /\ Update(r, [req[r] EXCEPT !.pc = "answer",
                                      !.items = fetch_all_vectors])
    /\ UNCHANGED <<storeVars, envVars, asked, contratoVars>>

FetchVectors(r) ==
    /\ r \in procs
    /\ req[r].pc = "vectors"
    /\ \/ \* fetch_all_vectors raises
          Raise(r, "OperationalError", FALSE)
       \/ /\ fetch_all_vectors = <<>>
          /\ Update(r, [req[r] EXCEPT !.pc = "done",
                                      !.resp = PlainResponse(MSG_NO_DOCS)])
       \/ /\ fetch_all_vectors # <<>>
          /\ Update(r, [req[r] EXCEPT !.pc = "answer",
                                      !.items = fetch_all_vectors])
    /\ UNCHANGED <<storeVars, envVars, asked, contratoVars>>

\* an answer step without the heuristic fallback
ChooseAnswerModelOnly(q, top_doc_chunks, model_text) == model_text

\* the answer of lines 1757-1762: the model's text, else the heuristic's
ChooseAnswer(q, top_doc_chunks, model_text) ==
    IF model_text # <<>> THEN model_text ELSE heuristic_answer(q, top_doc_chunks)

Answer(r) ==
    /\ r \in procs
    /\ req[r].pc = "answer"
    /\ LET qvec == embed_text(req[r].q)
           items == req[r].items
       IN  \/ \* embed_text raises: the embedding service is down
              /\ client
              /\ Raise(r, "APIConnectionError", TRUE)
           \/ \* np.dot raises on a stored vector of another shape
              /\ \E i \in 1..Len(items) : ~SameShape(qvec, items[i].emb)
              /\ Raise(r, "ValueError", TRUE)
           \/ /\ \A i \in 1..Len(items) : SameShape(qvec, items[i].emb)
              /\ LET top_doc_chunks == TopDocChunks(RankItems(qvec, items))
                 IN  \E secop_count \in (IF necesita_datos_secop(req[r].q)
                                         THEN SecopCounts ELSE {0}),
                        model_text \in (IF client THEN LlmAnswers ELSE {<<>>}) :
                        Update(r, [req[r] EXCEPT
                            !.pc = "done", !.emb_query = TRUE, !.llm = client,
                            !.top = [i \in 1..Len(top_doc_chunks) |->
                                        [doc_id |-> top_doc_chunks[i].doc_id,
                                         ord |-> top_doc_chunks[i].ord]],
                            !.heuristic = (model_text = <<>>),
                            !.resp = NormalResponse(top_doc_chunks,
                                        ChooseAnswer(req[r].q, top_doc_chunks, model_text),
                                        secop_count)])
    /\ UNCHANGED <<storeVars, envVars, asked, contratoVars>>

-----------------------------------------------------------------------------
(* ask_ep, lines 1786-1793, and create_synthetic_doc *)

\* the answer without a match, when create_synthetic_doc raises
ErrorFallback(r, embedded) ==
    Update(r, [req[r] EXCEPT !.pc = "done", !.emb_note = embedded,
                             !.resp = PlainResponse(ErrorMsg(req[r].err))])

ErrInsertDocument(r) ==
    /\ r \in procs
    /\ req[r].pc = "err_doc"
    /\ \/ /\ documents' = Append(documents,
                 DocumentRow("Nota sin fuentes (autogenerada)", "Sistema",
                             json_dumps([tipo |-> "nota", autogenerado |-> TRUE,
                                         q |-> req[r].query])))
          /\ Update(r, [req[r] EXCEPT !.pc = "err_chunks",
                                      !.doc_id = Len(documents) + 1])
       \/ \* insert_document raises
          /\ ErrorFallback(r, FALSE)
          /\ UNCHANGED documents
    /\ UNCHANGED <<chunks, envVars, asked, contratoVars>>

\* chunks of create_synthetic_doc, lines 175-176
SyntheticChunks(answer_text) ==
    LET text == IF answer_text # <<>> THEN answer_text ELSE MSG_NO_SOURCES
        parts == split_text(text, DEFAULT_MAX_CHARS, DEFAULT_OVERLAP)
    IN  IF parts = <<>> THEN <<text>> ELSE parts

ErrInsertChunks(r) ==
    /\ r \in procs
    /\ req[r].pc = "err_chunks"
    /\ LET msg == ErrorMsg(req[r].err)
           parts == SyntheticChunks(msg)
       IN  \/ \* embed_texts raises
              /\ client
              /\ ErrorFallback(r, TRUE)
              /\ UNCHANGED chunks
           \/ \* insert_chunks raises
              /\ ErrorFallback(r, TRUE)
              /\ UNCHANGED chunks
           \/ /\ chunks' = chunks \o insert_chunks(req[r].doc_id, parts,
                                                   embed_texts(parts))
              /\ Update(r, [req[r] EXCEPT !.pc = "done", !.note = TRUE,
                                          !.emb_note = TRUE,
                                          !.resp = ErrorResponse(req[r].doc_id, msg)])
    /\ UNCHANGED <<documents, envVars, asked, contratoVars>>

\* the response is sent; the worker is free again
Finish(r) ==
    /\ r \in procs
    /\ req[r].pc = "done"
    /\ Update(r, Idle)
    /\ UNCHANGED <<storeVars, envVars, asked, contratoVars>>

AskStep(r) ==
    \/ Ask(r)
    \/ Fetch(r)
    \/ InsertDocument(r)
    \/ InsertChunks(r)
    \/ FetchVectors(r)
    \/ Answer(r)
    \/ ErrInsertDocument(r)
    \/ ErrInsertChunks(r)
    \/ Finish(r)

Next == \E r \in Slots : AskStep(r)

Spec == Init /\ [][Next]_vars

SpecConcurrent == InitConcurrent /\ [][Next]_vars

-----------------------------------------------------------------------------
(* db_sqlite.py: structured records (contratos) and /rag/cargar.  The       *)
(* record tables share nothing with documents and chunks, so the loader is  *)
(* explored as a specification of its own.                                  *)

\* records a /rag/cargar request holds at most
MaxBatch == 2
\* rows the table contratos receives in a behaviour
MaxInserts == 4

campos_id == <<"codigo_de_secop", "numero_del_proceso",
               "referencia_del_contrato", "id_contrato">>

\* a record of the open-data API; <<>> is a field that is absent or empty
Registro(codigo_de_secop, numero_del_proceso, id_contrato, descripcion) ==
    [codigo_de_secop |-> codigo_de_secop,
     numero_del_proceso |-> numero_del_proceso,
     referencia_del_contrato |-> <<>>,
     id_contrato |-> id_contrato,
     descripcion_del_proceso |-> descripcion]

Registros ==
    { Registro(<<"CO1.A">>, <<>>, <<>>, <<"obra">>),
      Registro(<<"CO1.A">>, <<>>, <<>>, <<"software">>),
      Registro(<<>>, <<" ", "CO1.A", " ">>, <<>>, <<"vias">>),
      Registro(<<>>, <<>>, <<"CO1.B">>, <<"obra">>),
      Registro(<<" ">>, <<"CO1.B">>, <<>>, <<"obra">>),
      Registro(<<>>, <<>>, <<>>, <<"obra">>),
      Registro(<<>>, <<>>, <<>>, <<"software">>) }

\* f"{indice:06d}"
Pad6(indice) ==
    <<"000001", "000002", "000003", "000004", "000005", "000006">>[indice]

RECURSIVE codigo_loop(_, _, _)
codigo_loop(registro, campos, indice) ==
    IF campos = <<>> THEN <<"SEC-", Pad6(indice)>>
    ELSE IF registro[Head(campos)] # <<>>
         THEN strip(registro[Head(campos)])
         ELSE codigo_loop(registro, Tail(campos), indice)

generar_codigo_unico(registro, indice) ==
    codigo_loop(registro, campos_id, indice)

extraer_texto_indexar(registro) ==
    IF registro.descripcion_del_proceso # <<>>
    THEN <<"Descripción:", " ">> \o registro.descripcion_del_proceso
    ELSE <<>>

count_contratos == Len(contratos)

CodigosDe(rows) == {rows[i].codigo_unico : i \in 1..Len(rows)}

\* the row INSERT OR REPLACE writes
ContratoRow(registro, indice) ==
    [id |-> next_contrato_id,
     codigo_unico |-> generar_codigo_unico(registro, indice),
     texto_total |-> json_dumps(registro),
     texto_indexar |-> extraer_texto_indexar(registro)]

\* INSERT OR REPLACE without the UNIQUE constraint on codigo_unico
insert_contrato_append(registro, indice) ==
    /\ contratos' = Append(contratos, ContratoRow(registro, indice))
    /\ next_contrato_id' = next_contrato_id + 1
    /\ UNCHANGED contrato_embeddings

\* INSERT OR REPLACE: the row holding the code is deleted first, its
\* embedding rows with it (ON DELETE CASCADE, foreign_keys = ON)
insert_contrato(registro, indice) ==
    LET row == ContratoRow(registro, indice)
        Other(r) == r.codigo_unico # row.codigo_unico
    IN  /\ contratos' = Append(SelectSeq(contratos, Other), row)
        /\ next_contrato_id' = next_contrato_id + 1
        /\ contrato_embeddings' =
               IF row.codigo_unico \in CodigosDe(contratos)
               THEN SelectSeq(contrato_embeddings, Other)
               ELSE contrato_embeddings

askVars == <<documents, chunks, req, asked>>

\* cargar_contratos_rag: buscar_contratos answered
CargarBegin ==
    /\ ~batch.active
    /\ batch' = [active |-> TRUE, i |-> 1, cargados |-> 0]
    /\ UNCHANGED <<contratos, contrato_embeddings, next_contrato_id,
                   askVars, envVars>>

\* one iteration of the loop over enumerate(contratos, 1)
CargarInsert ==
    /\ batch.active
    /\ batch.i <= MaxBatch
    /\ \E registro \in Registros :
          \/ /\ next_contrato_id <= MaxInserts
             /\ insert_contrato(registro, batch.i)
             /\ batch' = [batch EXCEPT !.i = @ + 1, !.cargados = @ + 1]
          \/ \* insert_contrato raises: pass
             /\ batch' = [batch EXCEPT !.i = @ + 1]
             /\ UNCHANGED <<contratos, contrato_embeddings, next_contrato_id>>
    /\ UNCHANGED <<askVars, envVars>>

\* the list is exhausted (or was empty): the response is sent
CargarEnd ==
    /\ batch.active
    /\ batch' = NoBatch
    /\ UNCHANGED <<contratos, contrato_embeddings, next_contrato_id,
                   askVars, envVars>>

NextContratos == CargarBegin \/ CargarInsert \/ CargarEnd

\* the loader reads neither the embedder's configuration nor the documents
InitContratos ==
    /\ InitCommon /\ procs = {} /\ call = NoCall
    /\ ~client /\ hashseed = 0 /\ documents = <<>>

SpecContratos == InitContratos /\ [][NextContratos]_vars

-----------------------------------------------------------------------------
(* db_sqlite.py: insert_contrato_embeddings, as cargar_contratos.py and any *)
(* other caller invoke it on the stored records                             *)

\* a code no stored record carries
CODIGO_AUSENTE == <<"CO1.Z">>

\* the chunk texts a caller passes for a record
EmbChunks == { <<>>,
               << <<"Descripción:", " ", "obra">> >>,
               << <<"Descripción:", " ">>, <<"software">> >> }

\* the rows built by enumerate(zip(chunks, embs_list)), lines 274-276
EmbRows(codigo_unico, chunk_texts, embeddings) ==
    LET n == IF Len(chunk_texts) < Len(embeddings) THEN Len(chunk_texts) ELSE Len(embeddings)
    IN  [i \in 1..n |-> [codigo_unico |-> codigo_unico, chunk_ord |-> i - 1,
                         chunk_text |-> chunk_texts[i],
                         emb_json |-> json_dumps(embeddings[i])]]

\* the executemany of lines 281-284 without the DELETE of line 280
insert_contrato_embeddings_keep(codigo_unico, chunk_texts, embeddings) ==
    contrato_embeddings' =
        contrato_embeddings \o EmbRows(codigo_unico, chunk_texts, embeddings)

\* DELETE the rows of the code, then insert the new ones, in one transaction
insert_contrato_embeddings(codigo_unico, chunk_texts, embeddings) ==
    contrato_embeddings' =
        SelectSeq(contrato_embeddings, LAMBDA e : e.codigo_unico # codigo_unico)
        \o EmbRows(codigo_unico, chunk_texts, embeddings)

\* the embedding rows of a code, in insertion order
EmbeddingsOf(rows, codigo_unico) ==
    SelectSeq(rows, LAMBDA e : e.codigo_unico = codigo_unico)

\* the vectors a caller passes with the texts: those of the first nvec texts,
\* fewer or more than the texts
EmbVectors(chunk_texts, nvec) ==
    LET twice == chunk_texts \o chunk_texts
    IN  embed_texts(SubSeq(twice, 1, IF nvec < Len(twice) THEN nvec ELSE Len(twice)))

\* one call insert_contrato_embeddings(codigo, chunks, embs)
InsertContratoEmbeddings ==
    /\ ~batch.active
    /\ \E codigo \in CodigosDe(contratos) \cup {CODIGO_AUSENTE},
          chunk_texts \in EmbChunks, nvec \in 0..2 :
          LET embs == EmbVectors(chunk_texts, nvec)
              rows == EmbRows(codigo, chunk_texts, embs)
          IN  \/ \* json.dumps raises on a vector it cannot serialise
                 /\ rows # <<>>
                 /\ UNCHANGED contrato_embeddings
              \/ \* FOREIGN KEY constraint failed: the transaction is rolled back
                 /\ rows # <<>>
                 /\ codigo \notin CodigosDe(contratos)
                 /\ UNCHANGED contrato_embeddings
              \/ /\ rows = <<>> \/ codigo \in CodigosDe(contratos)
                 /\ insert_contrato_embeddings(codigo, chunk_texts, embs)
    /\ UNCHANGED <<contratos, next_contrato_id, batch, askVars, envVars>>

\* the records of the JSON files cargar_contratos.py is run on
RegistrosJson ==
    { Registro(<<"CO1.A">>, <<>>, <<>>, <<"obra">>),
      Registro(<<>>, <<" ", "CO1.A", " ">>, <<>>, <<"vias">>),
      Registro(<<>>, <<>>, <<"CO1.B">>, <<"obra">>) }

\* cargar_contratos_desde_json on a file that holds one record
CargarJson ==
    /\ ~batch.active
    /\ \E registro \in RegistrosJson :
          \/ /\ next_contrato_id <= MaxInserts
             /\ insert_contrato(registro, 1)
          \/ \* insert_contrato raises: the error is printed
             UNCHANGED <<contratos, contrato_embeddings, next_contrato_id>>
    /\ UNCHANGED <<batch, askVars, envVars>>

NextEmbeddings == CargarJson \/ InsertContratoEmbeddings

SpecEmbeddings == InitContratos /\ [][NextEmbeddings]_vars

-----------------------------------------------------------------------------
(* Properties of /ask *)

\* the url recorded in the metadata of stored document i, or None
DocUrl(i) == MetaUrl(json_loads(json_loads(documents[i].metadata)))

\* a document of that url is stored and has at least one chunk
StoredWithChunks(url) ==
    \E i \in DOMAIN documents : DocUrl(i) = url /\ ChunksOf(i) # <<>>

AllSpace(query) == \A i \in 1..Len(query) : IsSpace(query[i])

\* the response of a request that reached the except branch names a stored
\* note with at least one chunk, in exactly one match of score 0
NoteMatch(r) ==
    /\ Len(req[r].resp.matches) = 1
    /\ req[r].resp.matches[1].score = 0
    /\ req[r].resp.matches[1].doc_id \in DOMAIN documents
    /\ documents[req[r].resp.matches[1].doc_id].titulo
           = "Nota sin fuentes (autogenerada)"
    /\ ChunksOf(req[r].resp.matches[1].doc_id) # <<>>

\* C1: every /ask response, whatever the query, the stored corpus and the
\* collaborators' failures, has ok = true and a non-empty answer; the request
\* ends with a response, never with an exception.
C1_AlwaysAnswers ==
    \A r \in Slots :
        req[r].pc = "done" =>
            /\ req[r].resp.ok
            /\ req[r].resp.answer # <<>>

\* a request answered after both its main path and create_synthetic_doc failed
C1_Witness ==
    \E r \in Slots :
        /\ req[r].pc = "done"
        /\ req[r].err # None
        /\ ~req[r].note
        /\ req[r].resp.ok
        /\ req[r].resp.answer = ErrorMsg(req[r].err)

\* C2 as stated: whenever /ask hits an internal error, a synthetic document
\* with at least one chunk is persisted and the response holds exactly one
\* match of score 0 whose doc_id is that document's.
C2_AlwaysNote ==
    \A r \in Slots :
        (req[r].pc = "done" /\ req[r].err # None) => NoteMatch(r)

\* C2: an error response holds exactly one match of score 0 naming a
\* persisted synthetic document with at least one chunk when
\* create_synthetic_doc returned, and no match at all when it raised.
C2_NoteUnlessStorageFails ==
    \A r \in Slots :
        (req[r].pc = "done" /\ req[r].err # None) =>
            /\ req[r].resp.answer = ErrorMsg(req[r].err)
            /\ IF req[r].note THEN NoteMatch(r)
                              ELSE req[r].resp.matches = <<>>

C2_Witness ==
    \E r \in Slots :
        /\ req[r].pc = "done"
        /\ req[r].err # None
        /\ req[r].note
        /\ NoteMatch(r)

\* C3 as stated: with no chunk stored after auto-ingestion, the response is
\* the no-documents message with no match, and the request invoked neither
\* the embedder nor the model path nor the heuristic path.
C3_EmptyStoreSilent ==
    \A r \in Slots :
        (req[r].pc = "done" /\ req[r].nochunks) =>
            /\ req[r].resp = PlainResponse(MSG_NO_DOCS)
            /\ ~req[r].emb_ingest /\ ~req[r].emb_query /\ ~req[r].emb_note
            /\ ~req[r].llm /\ ~req[r].heuristic

\* C3: with no chunk stored after auto-ingestion, the request embeds no
\* query and calls neither the model path nor the heuristic path; when the
\* read of the store succeeds the response is the no-documents message with
\* no match, and when it raises the response is the error response.  (The
\* embedder may have been called by an ingestion that stored nothing.)
C3_EmptyStoreShortCircuit ==
    \A r \in Slots :
        (req[r].pc = "done" /\ req[r].nochunks) =>
            /\ ~req[r].emb_query /\ ~req[r].llm /\ ~req[r].heuristic
            /\ IF req[r].err = None
               THEN req[r].resp = PlainResponse(MSG_NO_DOCS)
               ELSE /\ req[r].err = "OperationalError"
                    /\ req[r].resp.answer = ErrorMsg("OperationalError")

\* the no-documents answer after an ingestion that embedded and stored nothing
C3_Witness ==
    \E r \in Slots :
        /\ req[r].pc = "done"
        /\ req[r].nochunks
        /\ req[r].err = None
        /\ req[r].emb_ingest
        /\ req[r].resp = PlainResponse(MSG_NO_DOCS)

\* C4: a request whose query is empty or all whitespace is answered at once
\* with the prompt-to-retry message and no match, and the step leaves
\* documents and chunks as they were (no ingestion, no fetch).
C4_BlankQueryPrompt ==
    [][\A r \in Slots :
          (req[r].pc = "idle" /\ req'[r].pc # "idle" /\ AllSpace(req'[r].query))
          => /\ req'[r].pc = "done"
             /\ req'[r].resp = PlainResponse(MSG_PROMPT)
             /\ req'[r].ncat = 0
             /\ UNCHANGED storeVars]_vars

C4_Witness ==
    \E r \in Slots :
        /\ req[r].pc = "done"
        /\ req[r].query = <<" ">>
        /\ req[r].resp = PlainResponse(MSG_PROMPT)

Ingesting == {"fetch", "insdoc", "inschunks"}

\* C5: a request inside _auto_ingest_from_web stays inside it or proceeds to
\* the read of the stored vectors, whatever fails (listing, fetch, extraction,
\* embedding, chunk insert); it never enters the except branch of ask_ep.
C5_IngestNeverRaises ==
    [][\A r \in Slots :
          /\ (req[r].pc = "idle" /\ req'[r].pc # "idle" /\ ~req'[r].listed)
                => req'[r].pc = "fetch"
          /\ req[r].pc \in Ingesting
                => /\ req'[r].pc \in Ingesting \cup {"vectors"}
                   /\ req'[r].err = None]_vars

\* the controller returned 0 after the listing and a later step failed
C5_Witness ==
    \E r \in Slots :
        /\ req[r].pc = "vectors"
        /\ ~req[r].listed
        /\ ~req[r].smooth
        /\ req[r].count = 0
        /\ req[r].err = None

\* C6 as stated: no two stored documents carry the same source url.
C6_NoDuplicateUrl ==
    \A i, j \in DOMAIN documents :
        (i # j /\ DocUrl(i) # None) => DocUrl(i) # DocUrl(j)

HasKeyword(c, q) == KeywordScore(TRUSTED_PDFS[c], lower(q)) > 0

CatalogDocs == {i \in DOMAIN documents : DocUrl(i) \in CatalogUrls}

\* C8 as stated: a request creates at most need (= 1) catalog documents, none
\* when no catalog keyword occurs in the lowercased question, and the number
\* of catalog-sourced documents never exceeds the catalog size.
C8_BoundedIngestion ==
    /\ \A r \in Slots :
          /\ req[r].ncat <= MIN_DOCS
          /\ (\A c \in DOMAIN TRUSTED_PDFS : ~HasKeyword(c, req[r].q))
                => req[r].ncat = 0
    /\ Cardinality(CatalogDocs) <= Len(TRUSTED_PDFS)

ErrorNames == {"OperationalError", "APIConnectionError", "ValueError"}

\* the chunk lists the chunker hands to insert_chunks
ChunkerOutputs ==
    {split_text(t, DEFAULT_MAX_CHARS, DEFAULT_OVERLAP) :
        t \in PdfTexts \cup {SeededChunks[1].text}}
    \cup {SyntheticChunks(ErrorMsg(e)) : e \in ErrorNames}

\* C9: the chunks of every stored document carry the ordinals 0..n-1, without
\* gap or duplicate, and their texts are the chunker's output in its order.
C9_ContiguousOrdinals ==
    \A d \in DOMAIN documents :
        LET cs == ChunksOf(d)
        IN  /\ \A i \in 1..Len(cs) : cs[i].ord = i - 1
            /\ cs # <<>> => [i \in 1..Len(cs) |-> cs[i].text] \in ChunkerOutputs

\* a catalog document ingested in several chunks
C9_Witness ==
    \E d \in DOMAIN documents :
        /\ Len(ChunksOf(d)) >= 2
        /\ DocUrl(d) \in CatalogUrls

-----------------------------------------------------------------------------
(* Properties of the record table *)

OneRowPerCode ==
    \A i, j \in DOMAIN contratos :
        i # j => contratos[i].codigo_unico # contratos[j].codigo_unico

\* the rows without their AUTOINCREMENT id
Content(rows) ==
    {[codigo_unico |-> rows[i].codigo_unico, texto_total |-> rows[i].texto_total,
      texto_indexar |-> rows[i].texto_indexar] : i \in 1..Len(rows)}

\* what one insert_contrato does to the table
UpsertStep ==
    contratos' # contratos =>
        LET row == contratos'[Len(contratos')]
        IN  /\ row.id = next_contrato_id
            /\ CodigosDe(contratos') = CodigosDe(contratos) \cup {row.codigo_unico}
            /\ Len(contratos') =
                  IF row.codigo_unico \in CodigosDe(contratos)
                  THEN count_contratos ELSE count_contratos + 1
            /\ \A i \in DOMAIN contratos :
                  contratos[i].codigo_unico # row.codigo_unico
                  => \E j \in DOMAIN contratos' : contratos'[j] = contratos[i]
            /\ Content(<<row>>) \subseteq Content(contratos)
                  => Content(contratos') = Content(contratos)

\* C10: after any sequence of inserts the table holds exactly one row per
\* unique code; an insert whose derived code is already stored replaces that
\* row and leaves count_contratos unchanged, and inserting a stored record
\* again leaves the table's content as it was.
C10_IdempotentUpsert == []OneRowPerCode /\ [][UpsertStep]_vars

\* three inserts succeeded and two rows are stored: one replaced another
C10_Witness ==
    /\ count_contratos = 2
    /\ next_contrato_id = 4
    /\ OneRowPerCode

-----------------------------------------------------------------------------
(* Properties of the record embeddings *)

\* what a call that changes the embedding rows, and no record, does to them
ReplaceStep ==
    (contrato_embeddings' # contrato_embeddings /\ contratos' = contratos) =>
        \E codigo \in CodigosDe(contratos), chunk_texts \in EmbChunks, nvec \in 0..2 :
            LET new == EmbRows(codigo, chunk_texts, EmbVectors(chunk_texts, nvec))
            IN  /\ EmbeddingsOf(contrato_embeddings', codigo) = new
                /\ \A i \in 1..Len(new) : new[i].chunk_ord = i - 1
                /\ \A e \in Range(contrato_embeddings') :
                      e.codigo_unico \in CodigosDe(contratos)
                /\ \A otro \in CodigosDe(contratos) \ {codigo} :
                      EmbeddingsOf(contrato_embeddings', otro)
                          = EmbeddingsOf(contrato_embeddings, otro)

\* C11: after insert_contrato_embeddings(code, chunks, vectors) returns, the
\* rows stored for the code are exactly the supplied (chunk, vector) pairs
\* with ordinals 0..n-1, none of the code's earlier rows remains, and the rows
\* of every other code are as they were.
C11_EmbeddingsReplaced == [][ReplaceStep]_vars

\* two codes hold embeddings, one of one row and one of two
C11_Witness ==
    \E a, b \in CodigosDe(contratos) :
        /\ Len(EmbeddingsOf(contrato_embeddings, a)) = 1
        /\ Len(EmbeddingsOf(contrato_embeddings, b)) = 2
        /\ EmbeddingsOf(contrato_embeddings, b)[2].chunk_ord = 1

-----------------------------------------------------------------------------
(* src/chunking.py: split_text called on its own.  Here a unit of a text is  *)
(* one character.                                                            *)

\* longest text split_text is called on
MaxText == 4
\* largest window split_text is called with
MaxWindow == 3

Chars == {"a", "b", " ", "\n"}

TextsUpTo(n) == UNION {[1..k -> Chars] : k \in 0..n}

\* the calls split_text(text, max_chars, overlap) with overlap < max_chars
ChunkerCalls ==
    {[pc |-> "called", text |-> t, max_chars |-> m, overlap |-> o,
      normalized |-> t, parts |-> <<>>] :
        t \in TextsUpTo(MaxText),
        m \in 1..MaxWindow,
        o \in 0..(MaxWindow - 1)}

InitChunker ==
    /\ InitCommon /\ procs = {}
    /\ ~client /\ hashseed = 0 /\ documents = <<>>
    /\ call \in {c \in ChunkerCalls : c.overlap < c.max_chars}

SplitText ==
    /\ call.pc = "called"
    /\ call' = [call EXCEPT !.pc = "returned",
                            !.normalized = normalize(call.text),
                            !.parts = split_text(call.text, call.max_chars,
                                                 call.overlap)]
    /\ UNCHANGED <<storeVars, req, asked, contratoVars, client, hashseed, procs>>

SpecChunker == InitChunker /\ [][SplitText]_vars

\* C12: for overlap < max_size the chunker returns only non-empty chunks, each
\* of length at most max_size, and returns no chunk exactly when the text is
\* empty or all whitespace.
C12_ChunksBounded ==
    call.pc = "returned" =>
        /\ \A i \in 1..Len(call.parts) :
              /\ call.parts[i] # <<>>
              /\ Len(call.parts[i]) <= call.max_chars
        /\ (call.parts = <<>>) <=> AllSpace(call.text)

\* a text with inner whitespace split into several chunks, one of them
\* shorter than the window
C12_Witness ==
    /\ call.pc = "returned"
    /\ Len(call.parts) >= 2
    /\ call.max_chars = 2
    /\ \E i \in 1..Len(call.text) : IsSpace(call.text[i])
    /\ \E i \in 1..Len(call.parts) : Len(call.parts[i]) < call.max_chars

\* the chunks concatenated, each but the first without its first overlap units
RECURSIVE Reconstruct(_, _)
Reconstruct(parts, overlap) ==
    IF parts = <<>> THEN <<>>
    ELSE IF Len(parts) = 1 THEN parts[1]
    ELSE Reconstruct(SubSeq(parts, 1, Len(parts) - 1), overlap)
         \o Slice(parts[Len(parts)], overlap, Len(parts[Len(parts)]))

\* the windows text[i:j] the loop of split_text visits, for overlap < max_chars
RawWindows(text, max_chars, overlap) ==
    LET step == max_chars - overlap
        n == IF Len(text) <= max_chars THEN 1
             ELSE ((Len(text) - max_chars + step - 1) \div step) + 1
    IN  [k \in 1..n |-> Slice(text, (k - 1) * step, (k - 1) * step + max_chars)]

\* no window starts or ends on whitespace: strip() changes none of them
CleanEdges(text, max_chars, overlap) ==
    \A k \in DOMAIN RawWindows(text, max_chars, overlap) :
        LET w == RawWindows(text, max_chars, overlap)[k]
        IN  w # <<>> /\ ~IsSpace(w[1]) /\ ~IsSpace(w[Len(w)])

\* C13 as stated: for every non-empty input, the chunks concatenated with the
\* overlap between consecutive chunks removed are the normalized input.
C13_Reconstructs ==
    (call.pc = "returned" /\ call.text # <<>>) =>
        Reconstruct(call.parts, call.overlap) = normalize(call.text)

\* C13: for every non-empty input whose windows neither start nor end on
\* whitespace (every input without whitespace among them), the chunks are the
\* windows of the normalized input, and concatenated with the overlap between
\* consecutive chunks removed they are the normalized input.
C13_ReconstructsCleanWindows ==
    ( /\ call.pc = "returned"
      /\ call.text # <<>>
      /\ CleanEdges(normalize(call.text), call.max_chars, call.overlap) )
    => /\ call.parts = RawWindows(normalize(call.text), call.max_chars, call.overlap)
       /\ Reconstruct(call.parts, call.overlap) = normalize(call.text)

\* overlapping windows over a text with inner whitespace, put together again
C13_Witness ==
    /\ call.pc = "returned"
    /\ call.overlap >= 1
    /\ Len(call.parts) >= 2
    /\ \E i \in 1..Len(call.text) : IsSpace(call.text[i])
    /\ CleanEdges(normalize(call.text), call.max_chars, call.overlap)
    /\ Reconstruct(call.parts, call.overlap) = call.text

\* a maximal run of newlines of the text, as <<first, last>> positions
NewlineRuns(text) ==
    {<<i, j>> \in (1..Len(text)) \X (1..Len(text)) :
        /\ i <= j
        /\ \A k \in i..j : text[k] = "\n"
        /\ (i = 1 \/ text[i - 1] # "\n")
        /\ (j = Len(text) \/ text[j + 1] # "\n")}

\* a blank or other whitespace unit that is not a newline stands right before
\* a newline
SpaceBeforeNewline(text) ==
    \E i \in 1..(Len(text) - 1) :
        IsSpace(text[i]) /\ text[i] # "\n" /\ text[i + 1] = "\n"

\* C14: the text the chunker splits has no run of three or more newlines and
\* no whitespace before a newline, and a text whose newline runs are of one or
\* two and that has no whitespace before a newline is split as it is.
C14_NormalizesNewlines ==
    call.pc = "returned" =>
        /\ \A run \in NewlineRuns(call.normalized) : run[2] - run[1] + 1 <= 2
        /\ ~SpaceBeforeNewline(call.normalized)
        /\ ( /\ \A run \in NewlineRuns(call.text) : run[2] - run[1] + 1 <= 2
             /\ ~SpaceBeforeNewline(call.text) )
           => call.normalized = call.text

-----------------------------------------------------------------------------
(* src/src/embeddings.py called from one process after another.  The salt of
   hash() is drawn anew by every interpreter start (PYTHONHASHSEED unset);
   _client is fixed by the environment the processes share. *)

\* calls the log keeps
MaxEmbedCalls == 3
\* interpreter starts
MaxRuns == 2

EmbedderTexts == {<<>>, <<"test">>, <<"pliego">>}

EmbedderLists == UNION {[1..k -> EmbedderTexts] : k \in 0..2}

NoEmbedCall == [fn |-> "none", raised |-> FALSE]

InitEmbedder ==
    /\ InitCommon /\ procs = {}
    /\ documents = <<>>
    /\ call = [pc |-> "embedder", run |-> 1, log |-> {}, last |-> NoEmbedCall]

\* the vectors a call returned, each with the run and the text it was made for
Returned(texts, vectors) ==
    {[run |-> call.run, text |-> texts[i], vec |-> vectors[i]] :
        i \in 1..Len(vectors)}

\* embed_text(text): the service is asked for a non-empty text only
EmbedText ==
    /\ call.pc = "embedder"
    /\ \E text \in EmbedderTexts :
         \/ /\ Cardinality(call.log \cup Returned(<<text>>, <<embed_text(text)>>))
                   <= MaxEmbedCalls
            /\ call' = [call EXCEPT
                           !.log = @ \cup Returned(<<text>>, <<embed_text(text)>>),
                           !.last = [fn |-> "embed_text", raised |-> FALSE]]
         \/ \* _client.embeddings.create raises
            /\ client /\ text # <<>>
            /\ call' = [call EXCEPT
                           !.last = [fn |-> "embed_text", raised |-> TRUE]]
    /\ UNCHANGED <<storeVars, req, asked, contratoVars, client, hashseed, procs>>

\* embed_texts(texts): the service is asked for every non-empty list
EmbedTexts ==
    /\ call.pc = "embedder"
    /\ \E texts \in EmbedderLists :
         \/ /\ Cardinality(call.log \cup Returned(texts, embed_texts(texts)))
                   <= MaxEmbedCalls
            /\ call' = [call EXCEPT
                           !.log = @ \cup Returned(texts, embed_texts(texts)),
                           !.last = [fn |-> "embed_texts", raised |-> FALSE]]
         \/ \* _client.embeddings.create raises
            /\ client /\ texts # <<>>
            /\ call' = [call EXCEPT
                           !.last = [fn |-> "embed_texts", raised |-> TRUE]]
    /\ UNCHANGED <<storeVars, req, asked, contratoVars, client, hashseed, procs>>

\* the process ends and another starts, with a salt of its own
NewProcess ==
    /\ call.pc = "embedder"
    /\ call.run < MaxRuns
    /\ hashseed' \in {0, 1}
    /\ call' = [call EXCEPT !.run = @ + 1, !.last = NoEmbedCall]
    /\ UNCHANGED <<storeVars, req, asked, contratoVars, client, procs>>

NextEmbedder == EmbedText \/ EmbedTexts \/ NewProcess

SpecEmbedder == InitEmbedder /\ [][NextEmbedder]_vars

\* C15: offline, two calls with the same string return the same vector, in
\* one process or in two.
C15_DeterministicOffline ==
    (call.pc = "embedder" /\ ~client) =>
        \A e1, e2 \in call.log : e1.text = e2.text => e1.vec = e2.vec

\* C16: the vectors embed_texts and embed_text return within one process all
\* have the same dimensionality, the vector of the empty string included.
C16_FixedDimension ==
    call.pc = "embedder" =>
        \A e1, e2 \in call.log :
            e1.run = e2.run => e1.vec.dim = e2.vec.dim

-----------------------------------------------------------------------------
(* ask_ep, lines 1701-1710: the ranking of the fetched items on its own *)

\* items fetch_all_vectors returns
MaxRankItems == 3

\* the k-th stored chunk, two chunks to a document
StoredKey(k) == [doc_id |-> (k + 1) \div 2, ord |-> (k + 1) % 2]

\* embeddings found in the store: offline ones, and one of the service
RankerEmbs ==
    {[dim |-> CHEAP_DIM, v |-> Dirs[i]] : i \in 1..Len(Dirs)}
        \cup {[dim |-> MODEL_DIM, v |-> Dirs[1]]}

\* results of fetch_all_vectors: rows in doc_id, ord order
RankerItems ==
    UNION {{[k \in 1..n |->
                [chunk_id |-> k, doc_id |-> StoredKey(k).doc_id,
                 ord |-> StoredKey(k).ord, text |-> <<"test">>,
                 emb |-> e[k], titulo |-> "Guia"]] :
             e \in [1..n -> RankerEmbs]} : n \in 1..MaxRankItems}

InitRanker ==
    /\ InitCommon /\ procs = {}
    /\ documents = <<>>
    /\ call \in {[pc |-> "called", q |-> strip(query), items |-> items,
                   sims |-> <<>>] :
                    query \in {x \in Queries : strip(x) # <<>>},
                    items \in RankerItems}

Rank ==
    /\ call.pc = "called"
    /\ LET qvec == embed_text(call.q)
       IN  \/ \* np.dot raises on a stored vector of another shape
              /\ \E i \in 1..Len(call.items) : ~SameShape(qvec, call.items[i].emb)
              /\ call' = [call EXCEPT !.pc = "raised"]
           \/ /\ \A i \in 1..Len(call.items) : SameShape(qvec, call.items[i].emb)
              /\ call' = [call EXCEPT !.pc = "ranked",
                                      !.sims = RankItems(qvec, call.items)]
    /\ UNCHANGED <<storeVars, req, asked, contratoVars, client, hashseed, procs>>

SpecRanker == InitRanker /\ [][Rank]_vars

\* s stands before t in storage order
StoredBefore(s, t) ==
    \/ s.doc_id < t.doc_id
    \/ s.doc_id = t.doc_id /\ s.ord < t.ord

\* C17: the ranking has one scored entry for every stored chunk, scores
\* descend, and entries of equal score stand in storage order (doc_id, then
\* ordinal).
C17_StableDescending ==
    call.pc = "ranked" =>
        LET sims == call.sims
            items == call.items
            qvec == embed_text(call.q)
        IN  /\ Len(sims) = Len(items)
            /\ \A i \in 1..Len(items) :
                  \E j \in 1..Len(sims) :
                      /\ sims[j].doc_id = items[i].doc_id
                      /\ sims[j].ord = items[i].ord
                      /\ sims[j].score = Similarity(qvec, items[i].emb)
                      /\ \A k \in 1..Len(sims) :
                            (sims[k].doc_id = items[i].doc_id
                                /\ sims[k].ord = items[i].ord) => k = j
            /\ \A j, k \in 1..Len(sims) :
                  j < k =>
                      /\ sims[j].score >= sims[k].score
                      /\ sims[j].score = sims[k].score
                            => StoredBefore(sims[j], sims[k])

\* three chunks ranked: the last stored comes first, the other two tie
C17_Witness ==
    /\ call.pc = "ranked"
    /\ Len(call.sims) = 3
    /\ call.sims[1].doc_id = 2
    /\ call.sims[2].score = call.sims[3].score
    /\ call.sims[1].score > call.sims[2].score

-----------------------------------------------------------------------------
(* the match of a /ask response *)

\* request r was answered on the normal path: the query was embedded and
\* nothing raised
NormalPath(r) ==
    /\ req[r].pc = "done"
    /\ req[r].err = None
    /\ req[r].emb_query

\* C18: on the normal path with stored chunks, matches[0] carries the highest
\* similarity of all stored chunks and the doc_id and chunk_ord of a chunk
\* that has it.
C18_BestMatchFirst ==
    \A r \in Slots :
        NormalPath(r) =>
            LET qvec == embed_text(req[r].q)
                items == req[r].items
                matches == req[r].resp.matches
            IN  /\ items # <<>>
                /\ Len(matches) = 1
                /\ \A i \in 1..Len(items) :
                      matches[1].score >= Similarity(qvec, items[i].emb)
                /\ \E i \in 1..Len(items) :
                      /\ items[i].doc_id = matches[1].doc_id
                      /\ items[i].ord = matches[1].chunk_ord
                      /\ Similarity(qvec, items[i].emb) = matches[1].score

\* the best chunk is not the first stored one, and a stored chunk scores less
C18_Witness ==
    \E r \in Slots :
        /\ NormalPath(r)
        /\ Len(req[r].items) >= 2
        /\ req[r].resp.matches[1].doc_id > req[r].items[1].doc_id
        /\ \E i \in 1..Len(req[r].items) :
              Similarity(embed_text(req[r].q), req[r].items[i].emb)
                  < req[r].resp.matches[1].score

-----------------------------------------------------------------------------
(* build_context_for_answer called on its own *)

\* lines of the first chunk
MaxCtxLines == 2

\* lines found in chunk texts
CtxLines == { <<>>, <<" ">>, <<"pliego">>, <<"PLIEGO">>, <<"pliego", " ">>,
              <<"pliego", " ", "y">>, <<"pliego", "\t", "y">> }

\* chunk texts of up to n lines
CtxTexts(n) ==
    UNION {{Join(ls, "\n") : ls \in [1..k -> CtxLines]} : k \in 1..n}

\* the ranked chunks handed over: one of several lines, and possibly a second
\* of one line
CtxSims ==
    {<<[text |-> t]>> : t \in CtxTexts(MaxCtxLines)}
        \cup {<<[text |-> t], [text |-> u]>> :
                 t \in CtxTexts(MaxCtxLines), u \in CtxLines}

InitContext ==
    /\ InitCommon /\ procs = {}
    /\ ~client /\ hashseed = 0 /\ documents = <<>>
    /\ call \in {[pc |-> "called", sims |-> sims, max_chars |-> m, ctx |-> <<>>] :
                    sims \in CtxSims, m \in 0..CONTEXT_MAX_CHARS}

BuildContext ==
    /\ call.pc = "called"
    /\ call' = [call EXCEPT !.pc = "returned",
                            !.ctx = build_context_for_answer(call.sims,
                                                             call.max_chars)]
    /\ UNCHANGED <<storeVars, req, asked, contratoVars, client, hashseed, procs>>

SpecContext == InitContext /\ [][BuildContext]_vars

\* the lines of a returned context
CtxOut(ctx) == IF ctx = <<>> THEN <<>> ELSE SplitLines(ctx)

\* the stripped non-empty lines whose whitespace-normalized form no earlier
\* line has, in order
FirstOccurrences(lines) ==
    LET p == [i \in 1..Len(lines) |-> strip(lines[i])]
        First(i) ==
            /\ p[i] # <<>>
            /\ \A j \in 1..(i - 1) : SquashSpaces(p[j]) # SquashSpaces(p[i])
    IN  Filter(p, {i \in 1..Len(lines) : First(i)})

\* C19: no two lines of the context have the same whitespace-normalized form
\* (compared with regard to case), none is empty, and the lines are the first
\* occurrences among the lines of the chunks, in their order, as far as the
\* context reaches.
C19_LinesOnceInOrder ==
    call.pc = "returned" =>
        LET out == CtxOut(call.ctx)
            firsts == FirstOccurrences(AllLines(call.sims))
        IN  /\ \A i, j \in 1..Len(out) :
                  SquashSpaces(out[i]) = SquashSpaces(out[j]) => i = j
            /\ \A i \in 1..Len(out) : strip(out[i]) # <<>>
            /\ Len(out) <= Len(firsts)
            /\ out = SubSeq(firsts, 1, Len(out))
            /\ SumLen1(firsts) <= call.max_chars => out = firsts

\* a line repeated with other whitespace in the second chunk is left out, the
\* same word in capitals is kept, an empty line is dropped
C19_Witness ==
    /\ call.pc = "returned"
    /\ Len(call.sims) = 2
    /\ call.sims[1].text = <<"pliego", " ", "y", "\n", "PLIEGO">>
    /\ call.sims[2].text = <<"pliego", "\t", "y">>
    /\ SumLen1(CtxOut(call.ctx)) <= call.max_chars
    /\ call.ctx = call.sims[1].text

\* C20: the returned context is no longer than the budget plus the length of
\* one of its lines.
C20_BudgetPlusOneLine ==
    call.pc = "returned" =>
        LET out == CtxOut(call.ctx)
        IN  \/ call.ctx = <<>>
            \/ Len(call.ctx) <= call.max_chars + Len(out[Len(out)])

\* the budget is passed by the last line: the context is longer than the
\* budget and has several lines
C20_Witness ==
    /\ call.pc = "returned"
    /\ call.max_chars >= 1
    /\ Len(CtxOut(call.ctx)) >= 2
    /\ Len(call.ctx) > call.max_chars
    /\ Len(FirstOccurrences(AllLines(call.sims))) > Len(CtxOut(call.ctx))

-----------------------------------------------------------------------------
(* ask_ep, lines 1756-1762, and heuristic_answer called on their own *)

\* lines of the chunk handed to heuristic_answer
MaxHeurLines == 6

HeurTokens == <<"pliego", "y", "test", "pagos", "capacidad", "experiencia",
                "proveedores", "habilitantes">>

\* lists of k lines: line i is a word of its own, the first word in
\* capitals, or blank
RECURSIVE HeurLists(_)
HeurLists(k) ==
    IF k = 0 THEN {<<>>}
    ELSE {Append(ls, l) : ls \in HeurLists(k - 1),
                          l \in {<<"PLIEGO">>, <<" ">>, <<HeurTokens[k]>>}}

HeurTexts == UNION {{Join(ls, "\n") : ls \in HeurLists(k)} : k \in 1..MaxHeurLines}

InitHeuristic ==
    /\ InitCommon /\ procs = {}
    /\ hashseed = 0 /\ documents = <<>>
    /\ call \in {[pc |-> "called", q |-> <<"test">>, sims |-> <<[text |-> t]>>,
                   model_text |-> <<>>, answer |-> <<>>] : t \in HeurTexts}

\* lines 1756-1762: the model is asked when it is configured; without an
\* answer of the model the heuristic answers
AnswerStep ==
    /\ call.pc = "called"
    /\ \E model_text \in (IF client THEN LlmAnswers ELSE {<<>>}) :
         call' = [call EXCEPT !.pc = "returned",
                              !.model_text = model_text,
                              !.answer = ChooseAnswer(call.q, call.sims, model_text)]
    /\ UNCHANGED <<storeVars, req, asked, contratoVars, client, hashseed, procs>>

SpecHeuristic == InitHeuristic /\ [][AnswerStep]_vars

\* the stripped non-empty lines whose whitespace-normalized lower-case form no
\* earlier line has, in order
FirstOccurrencesLower(lines) ==
    LET p == [i \in 1..Len(lines) |-> strip(lines[i])]
        First(i) ==
            /\ p[i] # <<>>
            /\ \A j \in 1..(i - 1) :
                  lower(SquashSpaces(p[j])) # lower(SquashSpaces(p[i]))
    IN  Filter(p, {i \in 1..Len(lines) : First(i)})

\* C21: without an answer of the model the answer is never empty: it is the
\* first (at most 5) distinct non-empty lines of the context built with the
\* heuristic budget, joined by single blanks, or the fixed message when the
\* context has no such line.
C21_HeuristicAnswer ==
    (call.pc = "returned" /\ call.model_text = <<>>) =>
        LET ctx == build_context_for_answer(call.sims, HEURISTIC_MAX_CHARS)
            firsts == FirstOccurrencesLower(CtxOut(ctx))
            n == IF Len(firsts) < MAX_SENTENCES THEN Len(firsts) ELSE MAX_SENTENCES
        IN  /\ call.answer # <<>>
            /\ firsts = <<>> => call.answer = MSG_INSUFFICIENT
            /\ firsts # <<>> => call.answer = Join(SubSeq(firsts, 1, n), " ")

\* the model is configured and does not answer; the context has more than 5
\* distinct lines and the answer has 5 of them
C21_Witness ==
    /\ call.pc = "returned"
    /\ client /\ call.model_text = <<>>
    /\ Len(FirstOccurrencesLower(CtxOut(
              build_context_for_answer(call.sims, HEURISTIC_MAX_CHARS)))) > MAX_SENTENCES
    /\ Len(call.answer) = 2 * MAX_SENTENCES - 1

-----------------------------------------------------------------------------
(* selection of the candidate to ingest *)

\* catalog entries with a keyword in the question of r whose url was not
\* stored when the request arrived
FreshCandidates(r) ==
    {c \in DOMAIN TRUSTED_PDFS :
        HasKeyword(c, req[r].q) /\ TRUSTED_PDFS[c].url \notin req[r].urls0}

\* C22: when positively scored candidates with urls not stored exist, the
\* highest-scoring of them is the one fetched, also when a candidate of
\* higher score is stored already: with every step succeeding it is stored
\* with its chunks after the request.
C22_NextUnstoredCandidate ==
    \A r \in Slots :
        ( /\ req[r].pc = "done"
          /\ req[r].listed /\ req[r].fetch_ok /\ req[r].smooth
          /\ FreshCandidates(r) # {} )
        => \E c \in FreshCandidates(r) :
              /\ \A d \in FreshCandidates(r) :
                    KeywordScore(TRUSTED_PDFS[c], lower(req[r].q))
                        >= KeywordScore(TRUSTED_PDFS[d], lower(req[r].q))
              /\ StoredWithChunks(TRUSTED_PDFS[c].url)

-----------------------------------------------------------------------------
(* the budget of the context builder *)

\* C23: the context stays within the budget: the line whose addition takes
\* the character total over the budget is not part of the output, so the
\* returned string is no longer than the budget.
C23_StopsBeforeBudget ==
    call.pc = "returned" => Len(call.ctx) <= call.max_chars

-----------------------------------------------------------------------------
(* /ask on a store that holds a long document *)

\* a store left by an earlier run: the manual in more chunks than the context
\* takes, and the guide in one
LongDocuments ==
    [i \in 1..2 |->
        DocumentRow(TRUSTED_PDFS[i].titulo, TRUSTED_PDFS[i].entidad,
                    json_dumps([tipo |-> "pdf", url |-> TRUSTED_PDFS[i].url]))]

LongChunks ==
    [i \in 1..(TOP_DOC_CHUNKS + 2) |->
        IF i <= TOP_DOC_CHUNKS + 1
        THEN [doc_id |-> 1, ord |-> i - 1, text |-> <<"Requisitos:", " ", "capacidad">>,
              emb_json |-> json_dumps(CheapEmbedWith(<<"Requisitos:", " ", "capacidad">>, i))]
        ELSE [doc_id |-> 2, ord |-> 0, text |-> <<"experiencia">>,
              emb_json |-> json_dumps(CheapEmbedWith(<<"experiencia">>, 0))]]

InitLongDoc ==
    /\ client \in BOOLEAN
    /\ hashseed \in (IF client THEN {0} ELSE {0, 1})
    /\ documents = LongDocuments /\ chunks = LongChunks
    /\ req = [r \in Slots |-> Idle]
    /\ asked = 0
    /\ contratos = <<>>
    /\ contrato_embeddings = <<>>
    /\ next_contrato_id = 1
    /\ batch = NoBatch
    /\ procs = {1} /\ call = NoCall

SpecLongDoc == InitLongDoc /\ [][Next]_vars

-----------------------------------------------------------------------------
(* split_text run one iteration of its loop at a time, for every overlap *)

\* split_text(text, max_chars, overlap) with max_chars >= 1 and overlap >= 0
LoopCalls ==
    {[pc |-> "called", text |-> t, max_chars |-> m, overlap |-> o, i |-> 0,
      parts |-> <<>>] :
        t \in TextsUpTo(MaxText), m \in 1..MaxWindow, o \in 0..MaxWindow}

InitLoop ==
    /\ InitCommon /\ procs = {}
    /\ ~client /\ hashseed = 0 /\ documents = <<>>
    /\ call \in LoopCalls

\* lines 6-12: the empty text returns at once, another is normalized
EnterLoop ==
    /\ call.pc = "called"
    /\ call' = IF call.text = <<>>
               THEN [call EXCEPT !.pc = "returned"]
               ELSE [call EXCEPT !.pc = "loop", !.text = normalize(call.text)]
    /\ UNCHANGED <<storeVars, req, asked, contratoVars, client, hashseed, procs>>

\* one pass of the while loop, lines 13-20; parts is followed up to
\* MaxText + 1 chunks
Iterate ==
    /\ call.pc = "loop"
    /\ Len(call.parts) <= MaxText
    /\ LET text == call.text
           i == call.i
           j == IF Len(text) < i + call.max_chars THEN Len(text)
                ELSE i + call.max_chars
           chunk == strip(Slice(text, i, j))
           parts2 == IF chunk # <<>> THEN Append(call.parts, chunk) ELSE call.parts
       IN  call' = IF i >= Len(text)
                   THEN [call EXCEPT !.pc = "returned"]
                   ELSE IF j >= Len(text)
                        THEN [call EXCEPT !.pc = "returned", !.parts = parts2]
                        ELSE [call EXCEPT !.parts = parts2,
                                          !.i = IF j - call.overlap < 0 THEN 0
                                                ELSE j - call.overlap]
    /\ UNCHANGED <<storeVars, req, asked, contratoVars, client, hashseed, procs>>

NextLoop == EnterLoop \/ Iterate

SpecLoop == InitLoop /\ [][NextLoop]_vars

\* C25: for max_chars >= 1 and overlap >= 0, overlap >= max_chars included,
\* every pass of the loop that does not return moves the start of the window
\* forward.
C25_WindowAdvances ==
    [][(call.pc = "loop" /\ call'.pc = "loop") => call'.i > call.i]_vars

-----------------------------------------------------------------------------
(* failed ingestion *)

\* C26: once no request is inside auto-ingestion, every document of a catalog
\* url has chunks: an attempt that failed after the fetch left no Document
\* row behind.
C26_NoDocumentWithoutChunks ==
    (\A r \in Slots : req[r].pc \notin Ingesting) =>
        \A i \in CatalogDocs : ChunksOf(i) # <<>>

\* C27: a question whose top candidate has no chunks in the store, be it
\* never attempted or attempted before without success, attempts it: when the
\* listing answers, the source answers with a PDF and no step fails, the
\* candidate is stored with chunks once the request is done.
C27_FailedCandidateRetried ==
    \A r \in Slots :
        ( /\ req[r].pc = "done"
          /\ req[r].listed /\ req[r].fetch_ok /\ req[r].smooth
          /\ req[r].candidates # <<>> )
        => StoredWithChunks(TRUSTED_PDFS[req[r].candidates[1]].url)

-----------------------------------------------------------------------------
(* records without an identifier *)

\* the record carries one of the identifier fields
HasIdentifier(registro) ==
    \E n \in 1..Len(campos_id) : registro[campos_id[n]] # <<>>

\* C28: a load replaces a stored record only by a record with the same
\* source identifier: when a row leaves the table and the record just loaded
\* is another record than the one it held, both carry an identifier field,
\* and the same one; two distinct records without identifier never replace
\* one another.
C28_ReplaceOnlySameIdentifier ==
    [][\A i \in DOMAIN contratos :
          LET old == json_loads(contratos[i].texto_total)
              new == json_loads(contratos'[Len(contratos')].texto_total)
          IN  ( /\ \A j \in DOMAIN contratos' : contratos'[j].id # contratos[i].id
                /\ old # new )
              => /\ HasIdentifier(old) /\ HasIdentifier(new)
                 /\ generar_codigo_unico(old, 1) = generar_codigo_unico(new, 1)]_vars

-----------------------------------------------------------------------------
(* stored vectors of another shape than the query vector *)

\* the items request r fetched hold a vector of the query vector's shape and
\* a vector of another shape
MixedShapes(r) ==
    /\ \E i \in 1..Len(req[r].items) :
          SameShape(embed_text(req[r].q), req[r].items[i].emb)
    /\ \E i \in 1..Len(req[r].items) :
          ~SameShape(embed_text(req[r].q), req[r].items[i].emb)

\* C29: a stored chunk whose vector has another dimension than the query
\* vector does not prevent answering: when the query was embedded and usable
\* chunks remain, the request answers on the normal path and creates no
\* synthetic note.
C29_UnusableEmbeddingTolerated ==
    \A r \in Slots :
        ( /\ req[r].pc = "done"
          /\ MixedShapes(r)
          /\ req[r].err # "APIConnectionError" )
        => /\ NormalPath(r)
           /\ ~req[r].note

-----------------------------------------------------------------------------
(* synthetic notes among the stored documents *)

\* C30: the match returned on the normal path is a document ingested from the
\* trusted catalog, never a synthetic note stored by an earlier request.
C30_MatchFromCatalog ==
    \A r \in Slots :
        NormalPath(r) =>
            /\ req[r].resp.matches # <<>>
            /\ req[r].resp.matches[1].doc_id \in CatalogDocs

====
